---- MODULE Spec2Model ----
(***************************************************************************)
(* Model of sync_data.py (kirbyju/tcia-dataset-browser): one sync run is   *)
(* fetch -> unify -> abstract merge -> citation cache -> finalize -> save. *)
(* The three parquet files are the state that survives a run.              *)
(*                                                                         *)
(* Citation texts are sequences of tokens, so that the regular expression  *)
(* of the selection step (a substring search) is computed, not assumed.    *)
(* DOIs and summaries are strings; NaN is the missing value of pandas.     *)
(***************************************************************************)
EXTENDS Integers, Sequences, FiniteSets, TLC

\* ------------------------------------------------------------------ bounds
MaxRuns == 2
MaxCollections == 1
MaxAnalyses == 1
MaxDatacite == 2

\* ------------------------------------------------------- values and inputs
NaN == "<NaN>"
SP == " "
DoiUrl == "https://doi.org/"

\* DOI values a source record can carry (a missing one is NaN)
RawDois == {"", "10.1/a", NaN}
\* DOIs of the DataCite table: DataCite spells the DOI in upper case
DataciteDois == {"10.1/A"}

\* str.lower() on the DOI values of the model
Lower(s) == IF s = "10.1/A" THEN "10.1/a" ELSE s

\* Series.astype(str): NaN becomes the string 'nan'
AsStr(v) == IF v = NaN THEN "nan" ELSE v

\* str.strip() on a DOI of the model: "" and " " are blank
StripDoi(s) == IF s = SP THEN "" ELSE s

\* bodies the citation service can answer with
Bodies ==
    { <<SP, "Smith,", "J.", "(2020).", DoiUrl, SP>>,
      <<"Genes", "not", "found", "(2021).">>,
      <<SP>> }

Responses ==
    [kind : {"http"}, status : {200}, body : Bodies]
    \cup { [kind |-> "http", status |-> 404, body |-> <<>>],
           [kind |-> "exc", status |-> 0, body |-> <<>>] }

NoResponse == [kind |-> "none", status |-> 0, body |-> <<>>]

\* ------------------------------------------------------------ text helpers
RECURSIVE StripLeft(_)
StripLeft(t) ==
    IF t # <<>> /\ Head(t) = SP THEN StripLeft(Tail(t)) ELSE t

RECURSIVE StripRight(_)
StripRight(t) ==
    IF t # <<>> /\ t[Len(t)] = SP THEN StripRight(SubSeq(t, 1, Len(t) - 1)) ELSE t

\* str.strip()
Strip(t) == StripRight(StripLeft(t))

\* str.replace("https://doi.org/", "")
RemoveDoiUrl(t) == SelectSeq(t, LAMBDA x : x # DoiUrl)

\* substring search
Contains(t, p) ==
    \E k \in 1..(Len(t) - Len(p) + 1) : SubSeq(t, k, k + Len(p) - 1) = p

\* the alternatives of "not found|Could not retrieve|No DOI|^$"
FailurePatterns ==
    { <<"not", "found">>, <<"Could", "not", "retrieve">>, <<"No", "DOI">> }

\* variant: every row is selected, cached or not
NeedsCitationAlways(c) == TRUE

\* variant: only a missing citation is selected, a cached failure is kept
NeedsCitationOnlyEmpty(c) == c = <<>>

\* Series.str.contains("not found|Could not retrieve|No DOI|^$")
NeedsCitation(c) ==
    c = <<>> \/ \E p \in FailurePatterns : Contains(c, p)

NoDoiProvided == <<"No", "DOI", "provided.">>

\* get_apa_citation(doi) when the request is answered by resp
get_apa_citation(doi, resp) ==
    IF doi = "" \/ doi = NaN THEN NoDoiProvided
    ELSE IF resp.kind = "exc"
         THEN <<"Could", "not", "retrieve", "citation", "for", "DOI:", doi>>
    ELSE IF resp.status = 200 THEN RemoveDoiUrl(Strip(resp.body))
    ELSE <<"Citation", "not", "found", "for", "DOI:", doi>>

\* --------------------------------------------------------- sequence helpers
RECURSIVE Flatten(_)
Flatten(ss) == IF ss = <<>> THEN <<>> ELSE Head(ss) \o Flatten(Tail(ss))

SeqsUpTo(S, n) == UNION { [1..k -> S] : k \in 0..n }

\* ------------------------------------------------------------------ inputs
\* wordpress.getCollections(format='df'): record k has id k
CollectionInputs ==
    { s \in SeqsUpTo([id : 1..MaxCollections, collection_doi : RawDois], MaxCollections) :
        \A k \in 1..Len(s) : s[k].id = k }

\* wordpress.getAnalyses(format='df'): ids follow those of the collections
AnalysisInputs ==
    { s \in SeqsUpTo([id : (MaxCollections + 1)..(MaxCollections + MaxAnalyses),
                      result_doi : RawDois], MaxAnalyses) :
        \A k \in 1..Len(s) : s[k].id = MaxCollections + k }

DescriptionAt(k) == IF k = 1 THEN "abstract one" ELSE "abstract two"

\* datacite.getDoi(): rows (DOI, Description)
DataciteInputs ==
    { s \in SeqsUpTo([DOI : DataciteDois, Description : {DescriptionAt(1), DescriptionAt(2)}],
                     MaxDatacite) :
        \A k \in 1..Len(s) : s[k].Description = DescriptionAt(k) }

\* wordpress.getDownloads(format='df', fields=fields)
DownloadInputs ==
    { <<>>,
      << [id |-> 5, download_size |-> NaN, download_file |-> "manifest.tcia"] >> }

NoFile == [exists |-> FALSE, rows |-> <<>>]
File(rows) == [exists |-> TRUE, rows |-> rows]

\* ------------------------------------------------------------------- state
VARIABLES
    pc,                 \* position of the run in main()
    runs,               \* runs started so far
    raw_collections_df, raw_analyses_df, datacite_df, downloads_df,
    master_df,          \* the unified rows of this run
    citations_cache,    \* the cache as loaded by this run
    rows_to_update,     \* indices of master_df selected in line 213
    cursor,             \* position of the loop of line 220 in rows_to_update
    new_citations,      \* list of (doi, citation): the dict of line 219
    calls,              \* DOIs of the requests made by get_apa_citation in this run
    lastResp,           \* DOI -> answer to the last request for it in this run
    anyFailure,         \* some request of this run was not answered with status 200
    prev,               \* the run before this one: whether it completed, its records,
                        \* the last answer per DOI, whether a request failed
    cacheWrites,        \* writes of CITATION_CACHE_FILE in this run
    stdout,             \* lines printed by this run
    exitCode,           \* exit status of the process, -1 while it runs
    masterFile, cacheFile, downloadsFile,       \* the parquet files
    startMaster, startCache, startDownloads,    \* the files when this run started
    xpc,                \* position in steps 5-6 (cross-reference resolution)
    xref_df,            \* the rows steps 5-6 work on: id, title, relationship columns
    id_to_title_map,    \* the dict of line 175, as a list of (key, title)
    tpc,                \* position in step 2 (title of a record)
    title_row,          \* the source row step 2 reads
    title,              \* the title step 2 gives the row
    dpc,                \* position in the handling of the download columns
    dl_master,          \* rows of master_df: id and the two download-ID columns
    dl_downloads,       \* downloads_df as fetched
    dl_masterFile,      \* tcia_master_data.parquet as written for these rows
    dl_downloadsFile,   \* downloads_cache.parquet as written
    ppc,                \* position of the dashboard script (app.py)
    session,            \* st.session_state: whether current_page is set, and its value
    matches,            \* len(filtered_df) under the filters now selected
    total_pages,        \* total_pages of the last script run
    slice_page,         \* current_page as used for start_index in the last script run
    buttons,            \* the Previous / Next buttons as last rendered
    clicked             \* the button whose click started the script run

xvars == << xpc, xref_df, id_to_title_map >>

syncVars ==
    << pc, runs, raw_collections_df, raw_analyses_df, datacite_df, downloads_df,
       master_df, citations_cache, rows_to_update, cursor, new_citations, calls,
       lastResp, anyFailure, prev, cacheWrites, stdout, exitCode,
       masterFile, cacheFile, downloadsFile, startMaster, startCache, startDownloads >>

tvars == << tpc, title_row, title >>
dvars == << dpc, dl_master, dl_downloads, dl_masterFile, dl_downloadsFile >>
pvars == << ppc, session, matches, total_pages, slice_page, buttons, clicked >>
auxVars == << tvars, dvars, pvars >>

vars == << xvars, syncVars, auxVars >>

files == << masterFile, cacheFile, downloadsFile >>
inputs == << raw_collections_df, raw_analyses_df, datacite_df, downloads_df >>
citationVars ==
    << citations_cache, rows_to_update, cursor, new_citations, calls, lastResp, anyFailure >>
history == << prev, startMaster, startCache, startDownloads >>

AllDois == { AsStr(d) : d \in RawDois }
NoResponses == [d \in AllDois |-> NoResponse]
NoRun == [completed |-> FALSE, collections |-> <<>>, analyses |-> <<>>,
          resp |-> NoResponses, anyFailure |-> FALSE]

InitSync ==
    /\ pc = "idle"
    /\ runs = 0
    /\ raw_collections_df = <<>> /\ raw_analyses_df = <<>>
    /\ datacite_df = <<>> /\ downloads_df = <<>>
    /\ master_df = <<>>
    /\ citations_cache = <<>>
    /\ rows_to_update = <<>>
    /\ cursor = 0
    /\ new_citations = <<>>
    /\ calls = <<>>
    /\ lastResp = NoResponses
    /\ anyFailure = FALSE
    /\ prev = NoRun
    /\ cacheWrites = 0
    /\ stdout = <<>>
    /\ exitCode = -1
    /\ masterFile = NoFile /\ cacheFile = NoFile /\ downloadsFile = NoFile
    /\ startMaster = NoFile /\ startCache = NoFile /\ startDownloads = NoFile

\* ------------------------------------------------- steps 1-4: unify, concat
\* rename collection_doi -> doi, astype(str), dataset_type = 'Collection'
UnifyCollection(r) ==
    [id |-> r.id, doi |-> AsStr(r.collection_doi), dataset_type |-> "Collection"]

\* rename result_doi -> doi, astype(str), dataset_type = 'Analysis Result'
UnifyAnalysis(r) ==
    [id |-> r.id, doi |-> AsStr(r.result_doi), dataset_type |-> "Analysis Result"]

\* pd.concat([collections_df, analyses_df], ignore_index=True)
Unify(cs, as) ==
    [k \in 1..Len(cs) |-> UnifyCollection(cs[k])] \o
    [k \in 1..Len(as) |-> UnifyAnalysis(as[k])]

\* ------------------------------------------- step 7: DataCite abstract merge
\* pd.merge(master_df, datacite_df[['doi_lower', 'Description']], how='left')
\* and the rename of Description to summary
MergeAbstracts(rows, dc) ==
    Flatten([k \in 1..Len(rows) |->
        LET key == Lower(rows[k].doi)
            hits == SelectSeq(dc, LAMBDA e : Lower(e.DOI) = key)
            With(v) == [id |-> rows[k].id, doi |-> rows[k].doi,
                        dataset_type |-> rows[k].dataset_type,
                        doi_lower |-> key, summary |-> v]
        IN  IF hits = <<>> THEN << With(NaN) >>
            ELSE [j \in 1..Len(hits) |-> With(hits[j].Description)]])

\* --------------------------------------------------- step 8: citation cache
CitNaN == << NaN >>

\* pd.merge(master_df, citations_cache, on='doi', how='left')
MergeCache(rows, cache) ==
    Flatten([k \in 1..Len(rows) |->
        LET hits == SelectSeq(cache, LAMBDA e : e.doi = rows[k].doi)
            With(c) == [id |-> rows[k].id, doi |-> rows[k].doi,
                        dataset_type |-> rows[k].dataset_type,
                        doi_lower |-> rows[k].doi_lower, summary |-> rows[k].summary,
                        citation |-> c]
        IN  IF hits = <<>> THEN << With(CitNaN) >>
            ELSE [j \in 1..Len(hits) |-> With(hits[j].citation)]])

\* master_df['citation'].fillna('')
FillCitations(rows) ==
    [k \in 1..Len(rows) |->
        IF rows[k].citation = CitNaN THEN [rows[k] EXCEPT !.citation = <<>>] ELSE rows[k]]

\* the indices of master_df[master_df['citation'].str.contains(...)], in order
RECURSIVE SelectIndices(_, _)
SelectIndices(rows, k) ==
    IF k > Len(rows) THEN <<>>
    ELSE (IF NeedsCitation(rows[k].citation) THEN << k >> ELSE <<>>)
         \o SelectIndices(rows, k + 1)

\* the guard of line 222
HasValidDoi(d) == StripDoi(d) # ""

\* new_citations[d] = v on a dict that keeps insertion order
DictSet(dict, d, v) ==
    IF \E k \in 1..Len(dict) : dict[k].doi = d
    THEN [k \in 1..Len(dict) |->
            IF dict[k].doi = d THEN [doi |-> d, citation |-> v] ELSE dict[k]]
    ELSE Append(dict, [doi |-> d, citation |-> v])

DictHas(dict, d) == \E k \in 1..Len(dict) : dict[k].doi = d
DictGet(dict, d) == dict[CHOOSE k \in 1..Len(dict) : dict[k].doi = d].citation

\* master_df['doi'].map(new_citations).fillna(master_df['citation'])
ApplyNewCitations(rows, dict) ==
    [k \in 1..Len(rows) |->
        IF DictHas(dict, rows[k].doi)
        THEN [rows[k] EXCEPT !.citation = DictGet(dict, rows[k].doi)]
        ELSE rows[k]]

\* variant: keep='first'
DropDuplicatesKeepFirst(t) ==
    SelectSeq([k \in 1..Len(t) |->
                  IF \A j \in 1..(k - 1) : t[j].doi # t[k].doi THEN t[k]
                  ELSE [doi |-> NaN, citation |-> CitNaN]],
              LAMBDA e : e.doi # NaN)

\* DataFrame.drop_duplicates(subset='doi', keep='last')
DropDuplicatesKeepLast(t) ==
    LET keep == { k \in 1..Len(t) : \A j \in (k + 1)..Len(t) : t[j].doi # t[k].doi }
        RECURSIVE Pick(_)
        Pick(k) == IF k > Len(t) THEN <<>>
                   ELSE (IF k \in keep THEN << t[k] >> ELSE <<>>) \o Pick(k + 1)
    IN  Pick(1)

\* variant: only the new entries are written
UpdatedCacheOnlyNew(cache, dict) == dict

\* pd.concat([citations_cache, new_cache_df]).drop_duplicates(subset='doi', keep='last')
UpdatedCache(cache, dict) == DropDuplicatesKeepLast(cache \o dict)

\* ------------------------------------------------- step 9: cleanup and save
\* astype(str) of the string columns and the projection on final_cols
Finalize(rows) ==
    [k \in 1..Len(rows) |->
        [id |-> rows[k].id, summary |-> AsStr(rows[k].summary),
         dataset_type |-> rows[k].dataset_type, citation |-> rows[k].citation,
         doi |-> rows[k].doi]]

\* drop(columns=['download_file']) and astype(str) of the listed columns
CachedDownloads(rows) ==
    [k \in 1..Len(rows) |->
        [id |-> rows[k].id, download_size |-> AsStr(rows[k].download_size)]]

\* the process ends when main() returns: the interpreter exits with status 0
ExitStatusAfterMain == 0

FatalLine == "FATAL ERROR: Could not fetch data. Details:"
FetchSteps == {"getCollections", "getAnalyses", "getDoi", "getDownloads"}
\* ----------------------------------------------------------------- actions
\* a new process runs sync_data.py
StartRun ==
    /\ pc \in {"idle", "done", "returned"}
    /\ runs < MaxRuns
    /\ runs' = runs + 1
    /\ pc' = "getCollections"
    /\ raw_collections_df' = <<>> /\ raw_analyses_df' = <<>>
    /\ datacite_df' = <<>> /\ downloads_df' = <<>>
    /\ master_df' = <<>>
    /\ citations_cache' = <<>> /\ rows_to_update' = <<>> /\ cursor' = 0
    /\ new_citations' = <<>> /\ calls' = <<>> /\ lastResp' = NoResponses
    /\ anyFailure' = FALSE
    /\ prev' = IF pc = "done"
               THEN [completed |-> TRUE, collections |-> raw_collections_df,
                     analyses |-> raw_analyses_df, resp |-> lastResp,
                     anyFailure |-> anyFailure]
               ELSE NoRun
    /\ cacheWrites' = 0
    /\ stdout' = <<>>
    /\ exitCode' = -1
    /\ startMaster' = masterFile /\ startCache' = cacheFile
    /\ startDownloads' = downloadsFile
    /\ UNCHANGED << xvars, auxVars, files >>

\* line 66
FetchCollections ==
    /\ pc = "getCollections"
    /\ \E cs \in CollectionInputs : raw_collections_df' = cs
    /\ pc' = "getAnalyses"
    /\ UNCHANGED << xvars, auxVars, runs, raw_analyses_df, datacite_df, downloads_df, master_df,
                    citationVars, cacheWrites, stdout, exitCode, files, history >>

\* line 67
FetchAnalyses ==
    /\ pc = "getAnalyses"
    /\ \E as \in AnalysisInputs : raw_analyses_df' = as
    /\ pc' = "getDoi"
    /\ UNCHANGED << xvars, auxVars, runs, raw_collections_df, datacite_df, downloads_df, master_df,
                    citationVars, cacheWrites, stdout, exitCode, files, history >>

\* line 68
FetchDatacite ==
    /\ pc = "getDoi"
    /\ \E dc \in DataciteInputs : datacite_df' = dc
    /\ pc' = "getDownloads"
    /\ UNCHANGED << xvars, auxVars, runs, raw_collections_df, raw_analyses_df, downloads_df, master_df,
                    citationVars, cacheWrites, stdout, exitCode, files, history >>

\* line 77
FetchDownloads ==
    /\ pc = "getDownloads"
    /\ \E dl \in DownloadInputs : downloads_df' = dl
    /\ pc' = "cacheDownloads"
    /\ UNCHANGED << xvars, auxVars, runs, raw_collections_df, raw_analyses_df, datacite_df, master_df,
                    citationVars, cacheWrites, stdout, exitCode, files, history >>

\* variant: the handler saves what was fetched so far
FetchErrorHandlerSavesPartial ==
    /\ masterFile' = File(Finalize(FillCitations(MergeCache(
                          MergeAbstracts(Unify(raw_collections_df, raw_analyses_df), <<>>),
                          <<>>))))
    /\ UNCHANGED << cacheFile, downloadsFile >>

\* the handler of line 90 writes no file
FetchErrorHandlerFiles == UNCHANGED files

\* lines 90-92 and 271-272: a fetch raises, main() prints and returns
FetchFails ==
    /\ pc \in FetchSteps
    /\ pc' = "returned"
    /\ stdout' = Append(stdout, << FatalLine, "e" >>)
    /\ exitCode' = ExitStatusAfterMain
    /\ FetchErrorHandlerFiles
    /\ UNCHANGED << xvars, auxVars, runs, inputs, master_df, citationVars, cacheWrites, history >>

\* lines 80-88
CacheDownloads ==
    /\ pc = "cacheDownloads"
    /\ downloadsFile' = File(CachedDownloads(downloads_df))
    /\ pc' = "process"
    /\ UNCHANGED << xvars, auxVars, runs, inputs, master_df, citationVars, cacheWrites, stdout, exitCode,
                    masterFile, cacheFile, history >>

\* lines 94-202
Process ==
    /\ pc = "process"
    /\ master_df' = MergeAbstracts(Unify(raw_collections_df, raw_analyses_df), datacite_df)
    /\ pc' = "citations"
    /\ UNCHANGED << xvars, auxVars, runs, inputs, citationVars, cacheWrites, stdout, exitCode, files,
                    history >>

\* lines 205-218 and 232-233
LoadCitations ==
    /\ pc = "citations"
    /\ LET cache == IF cacheFile.exists THEN cacheFile.rows ELSE <<>>
           rows == FillCitations(MergeCache(master_df, cache))
           sel == SelectIndices(rows, 1)
       IN  /\ citations_cache' = cache
           /\ master_df' = rows
           /\ rows_to_update' = sel
           /\ IF sel # <<>>
              THEN /\ pc' = "fetchLoop"
                   /\ cursor' = 1
                   /\ stdout' = Append(stdout, << "Found", Len(sel) >>)
              ELSE /\ pc' = "finalize"
                   /\ cursor' = 0
                   /\ stdout' = Append(stdout, << "No new citations to fetch." >>)
    /\ UNCHANGED << xvars, auxVars, runs, inputs, new_citations, calls, lastResp, anyFailure,
                    cacheWrites, exitCode,
                    files, history >>

CurrentDoi == master_df[rows_to_update[cursor]].doi

\* variant: the loop ends at the first request that is not answered with 200
NextRowBreakOnFailure(resp) ==
    IF resp.kind = "exc" \/ resp.status # 200 THEN Len(rows_to_update) + 1 ELSE cursor + 1

\* line 220: the loop goes on to the next row whatever the call returned
NextRow(resp) == cursor + 1

\* lines 220-223, a row with a DOI: one request
CitationCall ==
    /\ pc = "fetchLoop"
    /\ cursor <= Len(rows_to_update)
    /\ HasValidDoi(CurrentDoi)
    /\ \E resp \in Responses :
         /\ new_citations' = DictSet(new_citations, CurrentDoi,
                                     get_apa_citation(CurrentDoi, resp))
         /\ lastResp' = [lastResp EXCEPT ![CurrentDoi] = resp]
         /\ anyFailure' = (anyFailure \/ resp.kind = "exc" \/ resp.status # 200)
         /\ cursor' = NextRow(resp)
    /\ calls' = Append(calls, CurrentDoi)
    /\ UNCHANGED << xvars, auxVars, pc, runs, inputs, master_df, citations_cache, rows_to_update,
                    cacheWrites, stdout, exitCode, files, history >>

\* lines 220-222, a row without one: nothing
CitationSkip ==
    /\ pc = "fetchLoop"
    /\ cursor <= Len(rows_to_update)
    /\ ~HasValidDoi(CurrentDoi)
    /\ cursor' = cursor + 1
    /\ UNCHANGED << xvars, auxVars, pc, runs, inputs, master_df, citations_cache, rows_to_update,
                    new_citations, calls, lastResp, anyFailure, cacheWrites, stdout, exitCode,
                    files, history >>

\* variant: the cache is written whenever a row was selected
ShouldWriteCacheWheneverSelected == rows_to_update # <<>>

\* the condition of line 224
ShouldWriteCache == new_citations # <<>>

\* lines 224-229
WriteCitations ==
    /\ pc = "fetchLoop"
    /\ cursor > Len(rows_to_update)
    /\ ShouldWriteCache
    /\ master_df' = ApplyNewCitations(master_df, new_citations)
    /\ cacheFile' = File(UpdatedCache(citations_cache, new_citations))
    /\ cacheWrites' = cacheWrites + 1
    /\ stdout' = Append(stdout, << "Incremental citation fetch complete. Cache updated." >>)
    /\ pc' = "finalize"
    /\ UNCHANGED << xvars, auxVars, runs, inputs, citationVars, exitCode, masterFile, downloadsFile,
                    history >>

\* lines 230-231
NoValidDois ==
    /\ pc = "fetchLoop"
    /\ cursor > Len(rows_to_update)
    /\ ~ShouldWriteCache
    /\ stdout' = Append(stdout, << "No valid DOIs to fetch citations for." >>)
    /\ pc' = "finalize"
    /\ UNCHANGED << xvars, auxVars, runs, inputs, master_df, citationVars, cacheWrites, exitCode, files,
                    history >>

\* lines 235-269 and 271-272
Save ==
    /\ pc = "finalize"
    /\ master_df' = Finalize(master_df)
    /\ masterFile' = File(Finalize(master_df))
    /\ stdout' = Append(stdout, << "SUCCESS" >>)
    /\ exitCode' = ExitStatusAfterMain
    /\ pc' = "done"
    /\ UNCHANGED << xvars, auxVars, runs, inputs, citationVars, cacheWrites, cacheFile, downloadsFile,
                    history >>

Next ==
    \/ StartRun
    \/ FetchCollections
    \/ FetchAnalyses
    \/ FetchDatacite
    \/ FetchDownloads
    \/ FetchFails
    \/ CacheDownloads
    \/ Process
    \/ LoadCitations
    \/ CitationCall
    \/ CitationSkip
    \/ WriteCitations
    \/ NoValidDois
    \/ Save

\* ================================================================ steps 5-6
\* Cross-reference resolution.  Titles and names are sequences of character
\* codes, so that sorted() orders them as Python orders str.

\* "Brain-MRI", "aorta", "Lung", "abc"
BrainMRI == << 66, 114, 97, 105, 110, 45, 77, 82, 73 >>
Aorta == << 97, 111, 114, 116, 97 >>
Lung == << 76, 117, 110, 103 >>
Abc == << 97, 98, 99 >>

\* elements of a relationship list: an int or a str
I(n) == [k |-> "int", n |-> n, s |-> ""]
S(s) == [k |-> "str", n |-> 0, s |-> s]

\* values a relationship column can hold
PyList(v) == [t |-> "list", s |-> "", v |-> v]
PyStr(s) == [t |-> "str", s |-> s, v |-> <<>>]
PyInt(n) == [t |-> "int", s |-> "", v |-> << I(n) >>]
PyNaN == [t |-> "nan", s |-> "", v |-> <<>>]
PyFalse == [t |-> "False", s |-> "", v |-> <<>>]

\* str.lower() on the strings of the model
LowerStr(s) == IF s = "False" THEN "false" ELSE s

\* ast.literal_eval on the strings of the model; "abc" raises ValueError
LiteralEval(s) ==
    CASE s = "[7, 99]" -> [ok |-> TRUE, list |-> TRUE, v |-> << I(7), I(99) >>]
      [] s = "99"      -> [ok |-> TRUE, list |-> FALSE, v |-> << I(99) >>]
      [] OTHER         -> [ok |-> FALSE, list |-> FALSE, v |-> <<>>]

\* the characters of the strings of the model
Codes(s) == IF s = "abc" THEN Abc ELSE <<>>

\* parse_api_list(value)
parse_api_list(value) ==
    IF value.t = "list" THEN value.v
    ELSE IF \/ value.t = "False"
            \/ value.t = "nan"
            \/ (value.t = "str" /\ (value.s = "" \/ LowerStr(value.s) = "false"))
         THEN <<>>
    ELSE IF value.t = "int" THEN value.v
    ELSE LET parsed == LiteralEval(value.s)
         IN  IF parsed.ok THEN parsed.v ELSE << S(value.s) >>

\* str(n) of a non-negative int
RECURSIVE Str(_)
Str(n) == IF n < 10 THEN << 48 + n >> ELSE Str(n \div 10) \o << 48 + (n % 10) >>

\* str(i) of a list element
StrOf(e) == IF e.k = "int" THEN Str(e.n) ELSE Codes(e.s)

\* f"ID: {i}"
IdPlaceholder(key) == << 73, 68, 58, 32 >> \o key

\* the order of Python on str: by character code, a prefix first
RECURSIVE LexLess(_, _)
LexLess(a, b) ==
    IF b = <<>> THEN FALSE
    ELSE IF a = <<>> THEN TRUE
    ELSE IF Head(a) # Head(b) THEN Head(a) < Head(b)
    ELSE LexLess(Tail(a), Tail(b))

\* sorted(names)
RECURSIVE InsertSorted(_, _)
InsertSorted(x, t) ==
    IF t = <<>> THEN << x >>
    ELSE IF LexLess(x, Head(t)) THEN << x >> \o t
    ELSE << Head(t) >> \o InsertSorted(x, Tail(t))

RECURSIVE Sorted(_)
Sorted(t) == IF t = <<>> THEN <<>> ELSE InsertSorted(t[Len(t)], Sorted(SubSeq(t, 1, Len(t) - 1)))

\* lines 175-179: the dict after the loop over master_df[['id', 'title']]
RECURSIVE BuildTitleMap(_, _)
BuildTitleMap(rows, map) ==
    IF rows = <<>> THEN map
    ELSE LET tid == Str(Head(rows).id)
             t == Head(rows).title
             entry == [key |-> tid, title |-> IF t # <<>> THEN t ELSE IdPlaceholder(tid)]
         IN  BuildTitleMap(Tail(rows),
                 IF \E k \in 1..Len(map) : map[k].key = tid
                 THEN [k \in 1..Len(map) |-> IF map[k].key = tid THEN entry ELSE map[k]]
                 ELSE Append(map, entry))

\* id_to_title_map.get(str(i), f"ID: {i}")
LookupTitle(map, e) ==
    IF \E k \in 1..Len(map) : map[k].key = StrOf(e)
    THEN map[CHOOSE k \in 1..Len(map) : map[k].key = StrOf(e)].title
    ELSE IdPlaceholder(StrOf(e))

\* lines 181-186
RelatedIds(row) ==
    parse_api_list(row.related_collection) \o
    parse_api_list(row.related_collections) \o
    parse_api_list(row.related_analysis_results)

\* variant: an ID that is no key of the map is left out
RelatedNamesDropMissing(map, ids) ==
    Sorted([k \in 1..Len(SelectSeq(ids, LAMBDA e : \E j \in 1..Len(map) : map[j].key = StrOf(e))) |->
               LookupTitle(map, SelectSeq(ids, LAMBDA e : \E j \in 1..Len(map) : map[j].key = StrOf(e))[k])])

\* variant: a name is listed once
RECURSIVE Distinct(_)
Distinct(t) ==
    IF t = <<>> THEN <<>>
    ELSE LET rest == Distinct(SubSeq(t, 1, Len(t) - 1))
         IN  IF \E k \in 1..Len(rest) : rest[k] = t[Len(t)] THEN rest
             ELSE Append(rest, t[Len(t)])
RelatedNamesDistinct(map, ids) ==
    Sorted(Distinct([k \in 1..Len(ids) |-> LookupTitle(map, ids[k])]))

\* lines 187-189
RelatedNames(map, ids) == Sorted([k \in 1..Len(ids) |-> LookupTitle(map, ids[k])])

\* ------------------------------------------------------------------ inputs
RelationValues ==
    { PyNaN, PyFalse, PyStr(""), PyStr("False"), PyStr("[7, 99]"), PyStr("99"),
      PyStr("abc"), PyInt(10), PyList(<< I(7) >>), PyList(<< I(99), I(7) >>),
      PyList(<< I(10), I(7), I(10) >>) }

\* the rows after step 4: record 1 carries the relationships, records 7 and 10
\* are the datasets it can refer to (99 is no record)
XrefInputs ==
    { << [id |-> 1, title |-> Lung, related_collection |-> a,
          related_collections |-> b, related_analysis_results |-> c] >> \o o7 \o o10 :
        a \in RelationValues, b \in RelationValues, c \in RelationValues,
        o7 \in { <<>> } \cup
               { << [id |-> 7, title |-> t, related_collection |-> PyNaN,
                     related_collections |-> PyNaN,
                     related_analysis_results |-> PyNaN] >> : t \in {BrainMRI, <<>>} },
        o10 \in { <<>>,
                  << [id |-> 10, title |-> Aorta, related_collection |-> PyNaN,
                      related_collections |-> PyNaN,
                      related_analysis_results |-> PyNaN] >> } }

\* ----------------------------------------------------------------- actions
\* lines 167-171 for the relationship columns
NormalizeLists ==
    /\ xpc = "lists"
    /\ xref_df' = [k \in 1..Len(xref_df) |->
          [xref_df[k] EXCEPT
              !.related_collection = PyList(parse_api_list(@)),
              !.related_collections = PyList(parse_api_list(@)),
              !.related_analysis_results = PyList(parse_api_list(@))]]
    /\ xpc' = "map"
    /\ UNCHANGED << id_to_title_map, syncVars, auxVars >>

\* lines 175-179
BuildMap ==
    /\ xpc = "map"
    /\ id_to_title_map' = BuildTitleMap(xref_df, <<>>)
    /\ xpc' = "resolve"
    /\ UNCHANGED << xref_df, syncVars, auxVars >>

\* lines 181-189
ResolveRelated ==
    /\ xpc = "resolve"
    /\ xref_df' = [k \in 1..Len(xref_df) |->
          [id |-> xref_df[k].id, title |-> xref_df[k].title,
           related_collection |-> xref_df[k].related_collection,
           related_collections |-> xref_df[k].related_collections,
           related_analysis_results |-> xref_df[k].related_analysis_results,
           related_datasets_ids |-> RelatedIds(xref_df[k]),
           related_datasets |-> RelatedNames(id_to_title_map, RelatedIds(xref_df[k]))]]
    /\ xpc' = "resolved"
    /\ UNCHANGED << id_to_title_map, syncVars, auxVars >>

\* ===================================================== download columns
\* What a sync run does with the download-ID columns of the records and with
\* the downloads table: lines 77-87, 162-171 and 247-268.

\* the id of a downloads row that has none
NoId == [k |-> "nan", n |-> 0, s |-> ""]

DownloadRow(id, dtype) ==
    [id |-> id, download_title |-> "images", data_type |-> dtype,
     download_file |-> "manifest.tcia"]

\* downloads_df: rows 5 and 6, and a row without id
DownloadTables ==
    { <<>>,
      << DownloadRow(I(5), "CT") >>,
      << DownloadRow(I(5), "CT"), DownloadRow(NoId, "MR") >>,
      << DownloadRow(I(6), NaN), DownloadRow(I(5), "CT") >> }

\* values of collection_downloads / result_downloads (8 is no row of the table)
DownloadIdValues ==
    { PyNaN, PyFalse, PyStr(""), PyList(<< I(5) >>), PyList(<< I(5), I(8) >>),
      PyList(<< I(6), I(5) >>), PyInt(5) }

\* master_df after step 4: a collection and an analysis result; the download
\* column of the other kind is NaN after the concat
DownloadMasterInputs ==
    { << [id |-> 1, dataset_type |-> "Collection",
          collection_downloads |-> c, result_downloads |-> PyNaN],
         [id |-> 2, dataset_type |-> "Analysis Result",
          collection_downloads |-> PyNaN, result_downloads |-> r] >> :
        c \in DownloadIdValues, r \in DownloadIdValues }

\* lines 80-85 for the columns of the model
CachedDownloadRows(rows) ==
    [k \in 1..Len(rows) |->
        [id |-> rows[k].id, download_title |-> rows[k].download_title,
         data_type |-> AsStr(rows[k].data_type)]]

\* lines 247-267: the columns of final_cols among those of the model
FinalDownloadColumns(rows) ==
    [k \in 1..Len(rows) |->
        [id |-> rows[k].id, dataset_type |-> rows[k].dataset_type,
         collection_downloads |-> rows[k].collection_downloads,
         result_downloads |-> rows[k].result_downloads]]

\* lines 80-87
DlCacheDownloads ==
    /\ dpc = "cache"
    /\ dl_downloadsFile' = File(CachedDownloadRows(dl_downloads))
    /\ dpc' = "lists"
    /\ UNCHANGED << dl_master, dl_downloads, dl_masterFile, xvars, syncVars, tvars, pvars >>

\* lines 167-171 for the download columns
DlNormalizeLists ==
    /\ dpc = "lists"
    /\ dl_master' = [k \in 1..Len(dl_master) |->
          [dl_master[k] EXCEPT
              !.collection_downloads = PyList(parse_api_list(@)),
              !.result_downloads = PyList(parse_api_list(@))]]
    /\ dpc' = "save"
    /\ UNCHANGED << dl_downloads, dl_masterFile, dl_downloadsFile, xvars, syncVars, tvars,
                    pvars >>

\* lines 247-268
DlSave ==
    /\ dpc = "save"
    /\ dl_masterFile' = File(FinalDownloadColumns(dl_master))
    /\ dpc' = "saved"
    /\ UNCHANGED << dl_master, dl_downloads, dl_downloadsFile, xvars, syncVars, tvars,
                    pvars >>

\* ================================================================== step 2
\* The title of a record: normalize_wp_title, coalesce and lines 116-140.

\* values a title column can hold: None, NaN, a str, a dict with or without
\* 'rendered' (its value a str or None)
TNone == [t |-> "None", s |-> ""]
TNaN == [t |-> "nan", s |-> ""]
TStr(s) == [t |-> "str", s |-> s]
TDict(s) == [t |-> "dict", s |-> s]
TDictNoRendered == [t |-> "dict_empty", s |-> ""]
TDictRenderedNone == [t |-> "dict_none", s |-> ""]

\* str.strip() on the strings of the model, as a truth value
StripsToEmpty(s) == s \in {"", "  "}

\* str(v) of a value that is no str, dict or None
StrOfValue(v) == IF v.t = "nan" THEN "nan" ELSE v.s

\* normalize_wp_title(v): a str, or None when 'rendered' is None
normalize_wp_title(v) ==
    IF v.t = "dict" THEN TStr(v.s)
    ELSE IF v.t = "dict_empty" THEN TStr("")
    ELSE IF v.t = "dict_none" THEN TNone
    ELSE IF v.t = "None" THEN TStr("")
    ELSE IF v.t = "nan" THEN TStr("")
    ELSE TStr(StrOfValue(v))

\* what coalesce returns when None.strip() raises
AttributeError == "<AttributeError>"

\* coalesce(*vals)
RECURSIVE coalesce(_)
coalesce(vals) ==
    IF vals = <<>> THEN ""
    ELSE LET v == Head(vals)
         IN  IF v.t = "None" THEN coalesce(Tail(vals))
             ELSE IF v.t \in {"dict", "dict_empty", "dict_none"}
                  THEN LET n == normalize_wp_title(v)
                       IN  IF n.t = "None" THEN AttributeError
                           ELSE IF ~StripsToEmpty(n.s) THEN n.s
                           ELSE coalesce(Tail(vals))
             ELSE IF v.t = "str"
                  THEN IF ~StripsToEmpty(v.s) THEN v.s ELSE coalesce(Tail(vals))
             ELSE IF ~StripsToEmpty(StrOfValue(v)) THEN StrOfValue(v)
                  ELSE coalesce(Tail(vals))

\* lines 119-127
CollectionTitle(r) ==
    coalesce(<< r.title_src, normalize_wp_title(r.title), r.collection_browse_title, r.slug >>)

\* lines 130-138
AnalysisTitle(r) ==
    coalesce(<< r.title_src, normalize_wp_title(r.title), r.result_browse_title, r.slug >>)

\* values of the *_title, *_browse_title and slug columns ('' also stands for
\* a column the frame does not have)
PlainTitleValues ==
    { TStr(""), TStr("  "), TNone, TNaN, TStr("Brain-MRI"), TStr(" Lung CT ") }

\* values of the WordPress title column
WpTitleValues ==
    { TStr(""), TNone, TNaN, TDict("Rendered title"), TDict("  "), TDictNoRendered,
      TDictRenderedNone }

SlugValues == { TStr(""), TNaN, TStr("brain-mri") }

TitleInputs ==
    { [dataset_type |-> "Collection", title_src |-> a, title |-> w,
       collection_browse_title |-> b, slug |-> g] :
        a \in PlainTitleValues, w \in WpTitleValues, b \in PlainTitleValues, g \in SlugValues }
    \cup
    { [dataset_type |-> "Analysis Result", title_src |-> a, title |-> w,
       result_browse_title |-> b, slug |-> g] :
        a \in PlainTitleValues, w \in WpTitleValues, b \in PlainTitleValues, g \in SlugValues }

\* lines 119-127 on a row of collections_df
TitleOfCollection ==
    /\ tpc = "title"
    /\ title_row.dataset_type = "Collection"
    /\ title' = CollectionTitle(title_row)
    /\ tpc' = "done"
    /\ UNCHANGED << title_row, xvars, syncVars, dvars, pvars >>

\* lines 130-138 on a row of analyses_df
TitleOfAnalysis ==
    /\ tpc = "title"
    /\ title_row.dataset_type = "Analysis Result"
    /\ title' = AnalysisTitle(title_row)
    /\ tpc' = "done"
    /\ UNCHANGED << title_row, xvars, syncVars, dvars, pvars >>

IdleTitle == tpc = "off" /\ title_row = TNone /\ title = ""

\* ============================================================ dashboard pages
\* src/app.py lines 167-174 and 240-247: one run of the script slices the
\* results by st.session_state.current_page; a click or a filter change reruns it.

MaxMatches == 60

PAGE_SIZE == 25

Min(a, b) == IF a <= b THEN a ELSE b

Max(a, b) == IF a >= b THEN a ELSE b

\* line 170
TotalPages(total_results) ==
    Max(1, (total_results \div PAGE_SIZE) + (IF total_results % PAGE_SIZE > 0 THEN 1 ELSE 0))

ClampPageNot(current_page, pages) == current_page

\* line 171
ClampPage(current_page, pages) == Min(current_page, pages)

\* line 172
StartIndex(current_page) == (current_page - 1) * PAGE_SIZE

NoSession == [has |-> FALSE, current_page |-> 0]

NoWidget == [widget |-> "none", page |-> 0]

\* lines 168-176 and the rendering of the buttons at 240-247: one script run
RunScript ==
    /\ ppc = "run"
    /\ LET page == IF session.has THEN session.current_page ELSE 1
           pages == TotalPages(matches)
           current == ClampPage(page, pages)
       IN  /\ session' = [has |-> TRUE, current_page |-> current]
           /\ total_pages' = pages
           /\ slice_page' = current
           /\ buttons' = (StartIndex(current) < matches)
    /\ ppc' = "shown"
    /\ UNCHANGED << matches, clicked, xvars, syncVars, tvars, dvars >>

\* a filter widget changes len(filtered_df) and reruns the script
ChangeFilter ==
    /\ ppc = "shown"
    /\ \E n \in 0 .. MaxMatches :
        /\ n # matches
        /\ matches' = n
    /\ clicked' = [widget |-> "filter", page |-> session.current_page]
    /\ ppc' = "run"
    /\ UNCHANGED << session, total_pages, slice_page, buttons, xvars, syncVars, tvars, dvars >>

\* lines 242-244
ClickPrevious ==
    /\ ppc = "shown"
    /\ buttons
    /\ ~(session.current_page <= 1)
    /\ session' = [session EXCEPT !.current_page = @ - 1]
    /\ clicked' = [widget |-> "previous", page |-> session.current_page]
    /\ ppc' = "run"
    /\ UNCHANGED << matches, total_pages, slice_page, buttons, xvars, syncVars, tvars, dvars >>

\* lines 245-247
ClickNext ==
    /\ ppc = "shown"
    /\ buttons
    /\ ~(session.current_page >= total_pages)
    /\ session' = [session EXCEPT !.current_page = @ + 1]
    /\ clicked' = [widget |-> "next", page |-> session.current_page]
    /\ ppc' = "run"
    /\ UNCHANGED << matches, total_pages, slice_page, buttons, xvars, syncVars, tvars, dvars >>

IdlePage ==
    /\ ppc = "off"
    /\ session = NoSession
    /\ matches = 0
    /\ total_pages = 0
    /\ slice_page = 0
    /\ buttons = FALSE
    /\ clicked = NoWidget

IdleXref == xpc = "off" /\ xref_df = <<>> /\ id_to_title_map = <<>>
IdleDownloads ==
    /\ dpc = "off" /\ dl_master = <<>> /\ dl_downloads = <<>>
    /\ dl_masterFile = NoFile /\ dl_downloadsFile = NoFile

\* ----------------------------------------------------------- specifications
Init ==
    /\ InitSync
    /\ IdleXref
    /\ IdleTitle
    /\ IdleDownloads
    /\ IdlePage

\* the sync runs
Spec == Init /\ [][Next]_vars

InitXref ==
    /\ InitSync
    /\ xpc = "lists"
    /\ xref_df \in XrefInputs
    /\ id_to_title_map = <<>>
    /\ IdleTitle
    /\ IdleDownloads
    /\ IdlePage

NextXref ==
    \/ NormalizeLists
    \/ BuildMap
    \/ ResolveRelated

\* steps 5-6 on every input of XrefInputs
SpecXref == InitXref /\ [][NextXref]_vars

InitTitle ==
    /\ InitSync
    /\ IdleXref
    /\ tpc = "title"
    /\ title_row \in TitleInputs
    /\ title = ""
    /\ IdleDownloads
    /\ IdlePage

NextTitle ==
    \/ TitleOfCollection
    \/ TitleOfAnalysis

\* step 2 on every row of TitleInputs
SpecTitle == InitTitle /\ [][NextTitle]_vars

InitDownloads ==
    /\ InitSync
    /\ IdleXref
    /\ IdleTitle
    /\ dpc = "cache"
    /\ dl_master \in DownloadMasterInputs
    /\ dl_downloads \in DownloadTables
    /\ dl_masterFile = NoFile
    /\ dl_downloadsFile = NoFile
    /\ IdlePage

NextDownloads ==
    \/ DlCacheDownloads
    \/ DlNormalizeLists
    \/ DlSave

\* the download columns of a sync run, from the fetch to the saved table
SpecDownloads == InitDownloads /\ [][NextDownloads]_vars

InitPage ==
    /\ InitSync
    /\ IdleXref
    /\ IdleTitle
    /\ IdleDownloads
    /\ ppc = "run"
    /\ session = NoSession
    /\ matches \in 0 .. MaxMatches
    /\ total_pages = 0
    /\ slice_page = 0
    /\ buttons = FALSE
    /\ clicked = NoWidget

NextPage ==
    \/ RunScript
    \/ ChangeFilter
    \/ ClickPrevious
    \/ ClickNext

\* a dashboard session
SpecPage == InitPage /\ [][NextPage]_vars

\* ================================================================== claims
Range(t) == { t[k] : k \in 1..Len(t) }
CacheTexts(file, d) == { e.citation : e \in { x \in Range(file.rows) : x.doi = d } }
EntryCount(file, d) == Cardinality({ k \in 1..Len(file.rows) : file.rows[k].doi = d })
RunEnded == pc \in {"done", "returned"}
Succeeded(resp) == resp.kind = "http" /\ resp.status = 200
SameRecordsAsBefore ==
    /\ prev.completed
    /\ prev.collections = raw_collections_df
    /\ prev.analyses = raw_analyses_df

\* C1: when a fetch call raises, the run ends with the unified table, the
\* citation cache and the downloads cache exactly as they were when it started.
C1_NoWriteOnFetchError ==
    pc = "returned" =>
        /\ masterFile = startMaster
        /\ cacheFile = startCache
        /\ downloadsFile = startDownloads

\* a run fails at getDownloads after an earlier run has saved its table
C1_Witness ==
    /\ pc = "returned"
    /\ datacite_df # <<>>
    /\ masterFile.exists /\ masterFile.rows # <<>>

\* C2 as stated: on the second of two runs in a row over the same records,
\* with every request answered with status 200, no request is made for a DOI
\* whose request was answered with status 200 in the first run, and its rows
\* carry the cached text.
C2_Original ==
    (pc = "done" /\ SameRecordsAsBefore /\ ~prev.anyFailure /\ ~anyFailure) =>
        \A d \in AllDois :
            Succeeded(prev.resp[d]) =>
                /\ d \notin Range(calls)
                /\ \A r \in Range(masterFile.rows) :
                       r.doi = d => CacheTexts(cacheFile, d) = { r.citation }

\* a citation text that is not empty and holds none of the failure phrases
ProperCitation(c) ==
    /\ c # <<>>
    /\ ~Contains(c, << "not", "found" >>)
    /\ ~Contains(c, << "Could", "not", "retrieve" >>)
    /\ ~Contains(c, << "No", "DOI" >>)

\* C2 amended: the same for the DOIs whose first-run answer, once cleaned, is
\* a text that matches no failure pattern.
C2_NoRefetchOfCachedCitation ==
    (pc = "done" /\ SameRecordsAsBefore /\ ~prev.anyFailure /\ ~anyFailure) =>
        \A d \in AllDois :
            (Succeeded(prev.resp[d]) /\ ProperCitation(get_apa_citation(d, prev.resp[d]))) =>
                /\ d \notin Range(calls)
                /\ \A r \in Range(masterFile.rows) :
                       r.doi = d => r.citation = get_apa_citation(d, prev.resp[d])
                /\ CacheTexts(cacheFile, d) = { get_apa_citation(d, prev.resp[d]) }

\* the second run over the same record makes no request and saves the cached text
C2_Witness ==
    /\ pc = "done" /\ SameRecordsAsBefore /\ ~prev.anyFailure
    /\ Succeeded(prev.resp["10.1/a"])
    /\ calls = <<>>
    /\ \E r \in Range(masterFile.rows) :
           r.doi = "10.1/a" /\ r.citation = << "Smith,", "J.", "(2020)." >>

\* the failure patterns as the claim lists them
ClaimedFailure(c) ==
    \/ c = <<>>
    \/ Contains(c, << "not", "found" >>)
    \/ Contains(c, << "Could", "not", "retrieve" >>)
    \/ Contains(c, NoDoiProvided)

\* C3: in a run that has passed the citation step, a DOI carried by a record
\* whose cached text is a failure (or that has no cache entry) has been
\* requested again, and when the request whose answer the run keeps succeeded,
\* its text is the cache entry of the DOI and the citation of its rows.
C3_FailedCitationRetried ==
    pc \in {"finalize", "done"} =>
        \A d \in AllDois :
            (/\ HasValidDoi(d)
             /\ \E r \in Range(master_df) : r.doi = d
             /\ \A c \in CacheTexts(startCache, d) : ClaimedFailure(c)) =>
                /\ d \in Range(calls)
                /\ Succeeded(lastResp[d]) =>
                     /\ CacheTexts(cacheFile, d) = { RemoveDoiUrl(Strip(lastResp[d].body)) }
                     /\ \A r \in Range(master_df) :
                            r.doi = d => r.citation = RemoveDoiUrl(Strip(lastResp[d].body))

\* a cached "Could not retrieve ..." is replaced by the citation of a later run
C3_Witness ==
    /\ pc = "done"
    /\ \E c \in CacheTexts(startCache, "10.1/a") : Contains(c, << "Could", "not", "retrieve" >>)
    /\ Succeeded(lastResp["10.1/a"])
    /\ CacheTexts(cacheFile, "10.1/a") = { << "Smith,", "J.", "(2020)." >> }
    /\ \E r \in Range(masterFile.rows) :
           r.doi = "10.1/a" /\ r.citation = << "Smith,", "J.", "(2020)." >>

\* C4: the persisted cache never holds two entries for a DOI, and after the
\* citation step the entry of a DOI requested in the run is the new text.
C4_OneEntryPerDoi ==
    /\ \A d \in AllDois : EntryCount(cacheFile, d) <= 1
    /\ pc \in {"finalize", "done"} =>
          \A d \in Range(calls) :
              CacheTexts(cacheFile, d) = { get_apa_citation(d, lastResp[d]) }

\* a DOI with an entry is requested again and the entry is replaced
C4_Witness ==
    /\ pc = "done"
    /\ \E d \in Range(calls) :
          /\ EntryCount(startCache, d) = 1
          /\ CacheTexts(startCache, d) # CacheTexts(cacheFile, d)

\* C5: whatever the run has done so far, every entry the cache had when the
\* run started whose DOI was not requested is still there with its text, and
\* every other entry belongs to a requested DOI.
C5_CacheFrame ==
    /\ \A e \in Range(startCache.rows) : e.doi \notin Range(calls) => e \in Range(cacheFile.rows)
    /\ \A e \in Range(cacheFile.rows) : e \in Range(startCache.rows) \/ e.doi \in Range(calls)

\* the cache is rewritten while it holds an entry of a DOI no record carries
C5_Witness ==
    /\ pc = "done" /\ cacheWrites = 1
    /\ \E e \in Range(startCache.rows) :
          /\ \A r \in Range(master_df) : r.doi # e.doi
          /\ e \in Range(cacheFile.rows)

\* C6: every saved row with an empty DOI has the citation "No DOI provided."
\* and no request was made for the empty DOI.
C6_EmptyDoiPlaceholder ==
    pc = "done" =>
        /\ "" \notin Range(calls)
        /\ \A r \in Range(masterFile.rows) : r.doi = "" => r.citation = NoDoiProvided

C8_ExitStatus ==
    /\ pc = "done" => exitCode = 0
    /\ pc = "returned" => exitCode # 0
\* ------------------------------------------------- claims on steps 5-6
\* the record an ID refers to, read off the rows
NameOfId(rows, e) ==
    LET holders == { q \in Range(rows) : e.k = "int" /\ q.id = e.n }
    IN  IF holders # {} /\ (CHOOSE q \in holders : TRUE).title # <<>>
        THEN (CHOOSE q \in holders : TRUE).title
        ELSE IdPlaceholder(StrOf(e))

Count(t, x) == Cardinality({ k \in 1..Len(t) : t[k] = x })

\* C9: after resolution, related_datasets of every record lists, for each ID
\* of its three relationship lists and as often as the ID occurs, the title
\* of the record with that ID, or "ID: <id>" when there is none or its title
\* is empty; and the list is in lexicographic order.
C9_RelatedNamesResolved ==
    xpc = "resolved" =>
        \A r \in Range(xref_df) :
            LET ids == r.related_collection.v \o r.related_collections.v
                       \o r.related_analysis_results.v
                expected == [k \in 1..Len(ids) |-> NameOfId(xref_df, ids[k])]
                names == r.related_datasets
            IN  /\ r.related_datasets_ids = ids
                /\ \A n \in Range(names) \cup Range(expected) :
                       Count(names, n) = Count(expected, n)
                /\ \A k \in 1..(Len(names) - 1) : ~LexLess(names[k + 1], names[k])

\* IDs [7, 99], 7 titled "Brain-MRI", 99 no record: ["Brain-MRI", "ID: 99"]
C9_Witness ==
    /\ xpc = "resolved"
    /\ xref_df[1].related_datasets_ids = << I(7), I(99) >>
    /\ xref_df[1].related_datasets = << BrainMRI, IdPlaceholder(<< 57, 57 >>) >>

\* C10 as stated: related_datasets has as many entries as the relationship
\* lists have distinct IDs.
C10_Original ==
    xpc = "resolved" =>
        \A r \in Range(xref_df) :
            Len(r.related_datasets) = Cardinality(Range(r.related_datasets_ids))

\* C10 amended: related_datasets has as many entries as the concatenated
\* relationship lists have IDs, repeats counted.
C10_OneNamePerListedId ==
    xpc = "resolved" =>
        \A r \in Range(xref_df) :
            Len(r.related_datasets) =
                Len(r.related_collection.v) + Len(r.related_collections.v)
                + Len(r.related_analysis_results.v)

\* ID 7 in two of the three fields: two entries for one distinct ID
C10_Witness ==
    /\ xpc = "resolved"
    /\ xref_df[1].related_collection.v = << I(7) >>
    /\ xref_df[1].related_collections.v = <<>>
    /\ xref_df[1].related_analysis_results.v = << I(7) >>
    /\ Len(xref_df[1].related_datasets) = 2
    /\ Cardinality(Range(xref_df[1].related_datasets_ids)) = 1

\* C11: every record of the saved table carries a `downloads` list holding
\* exactly the rows of the saved downloads table whose id is among the
\* record's collection_downloads / result_downloads.
C11_DownloadsAttached ==
    dpc = "saved" =>
        \A r \in Range(dl_masterFile.rows) :
            /\ "downloads" \in DOMAIN r
            /\ Range(r.downloads) =
                   { e \in Range(dl_downloadsFile.rows) :
                       e.id \in Range(r.collection_downloads.v)
                                \cup Range(r.result_downloads.v) }

\* a title source that is present and not empty after trimming
PresentTitle(v) == v.t = "str" /\ v.s \notin {"", "  "}

\* the four title sources of a row, in the order of the claim
TitleSources(r) ==
    << r.title_src,
       IF r.title.t = "dict" THEN [t |-> "str", s |-> r.title.s] ELSE r.title,
       IF r.dataset_type = "Collection" THEN r.collection_browse_title
       ELSE r.result_browse_title,
       r.slug >>

\* C12: the title of a record is the first of (explicit title, rendered
\* WordPress title, browse title of its kind, slug) that is present and not
\* empty after trimming, None and NaN counting as empty; it is empty only
\* when none is.
C12_TitleIsFirstNonEmpty ==
    tpc = "done" =>
        LET c == TitleSources(title_row)
            present == { k \in 1..4 : PresentTitle(c[k]) }
        IN  IF present = {} THEN title = ""
            ELSE title = c[CHOOSE k \in present : \A j \in present : k <= j].s

\* C13: in the saved table, the summary of a record whose lower-cased DOI
\* matches no DataCite row is the empty string, and the summary of a record
\* with a match is the Description of a matching row.
C13_SummaryEmptyWithoutMatch ==
    pc = "done" =>
        \A r \in Range(masterFile.rows) :
            LET hits == { e \in Range(datacite_df) : Lower(e.DOI) = Lower(r.doi) }
            IN  IF hits = {} THEN r.summary = ""
                ELSE r.summary \in { e.Description : e \in hits }

\* the last request of this run for DOI d was not answered with status 200
FailedRequest(d) == lastResp[d].kind # "none" /\ ~Succeeded(lastResp[d])

\* C14: once the citation loop of a run is over, a DOI whose request failed
\* has a failure placeholder as its cache entry and as the citation of its
\* rows, and every selected row with a non-empty DOI has had its request.
C14_FailureDoesNotAbort ==
    pc \in {"finalize", "done"} =>
        \A d \in AllDois :
            FailedRequest(d) =>
                /\ \E c \in CacheTexts(cacheFile, d) :
                       /\ CacheTexts(cacheFile, d) = { c }
                       /\ c # <<>>
                       /\ ClaimedFailure(c)
                       /\ \A r \in Range(master_df) : r.doi = d => r.citation = c
                /\ \A k \in Range(rows_to_update) :
                       master_df[k].doi \notin {"", SP} => master_df[k].doi \in Range(calls)

\* the request for 10.1/a fails, the one for the DOI of the next selected row
\* is made and answered, and the run saves both
C14_Witness ==
    /\ pc = "done"
    /\ calls = << "10.1/a", "nan" >>
    /\ lastResp["10.1/a"].kind = "exc"
    /\ Succeeded(lastResp["nan"])
    /\ CacheTexts(cacheFile, "10.1/a")
           = { << "Could", "not", "retrieve", "citation", "for", "DOI:", "10.1/a" >> }
    /\ CacheTexts(cacheFile, "nan") = { << "Smith,", "J.", "(2020)." >> }

\* C15: the saved table has one row per fetched record, the collections
\* first and the analyses after them.
C15_OneRowPerRecord ==
    pc = "done" =>
        [k \in 1..Len(masterFile.rows) |-> masterFile.rows[k].id]
            = [k \in 1..Len(raw_collections_df) |-> raw_collections_df[k].id]
              \o [k \in 1..Len(raw_analyses_df) |-> raw_analyses_df[k].id]

\* C16: the page a script run slices the results by is at least 1 and at most
\* max(1, ceil(matches / 25)).
C16_PageInRange ==
    ppc = "shown" =>
        LET ceil == CHOOSE n \in 0..matches : n * 25 >= matches /\ (n - 1) * 25 < matches
            pages == IF ceil >= 1 THEN ceil ELSE 1
        IN  /\ 1 <= slice_page
            /\ slice_page <= pages
            /\ session.has /\ session.current_page = slice_page

\* on page 3 of 60 matches a filter change leaves 10: the run slices page 1
C16_Witness ==
    /\ ppc = "shown"
    /\ clicked = [widget |-> "filter", page |-> 3]
    /\ matches = 10
    /\ slice_page = 1
====
